---- MODULE Spec2Model ----
(***************************************************************************)
(* Rendezvous (signaling) server of sshx: the peer mailbox manager         *)
(* (cmd/signaling/data_manager.go) and the HTTP handlers that drive it     *)
(* (cmd/signaling/server.go).                                              *)
(*                                                                         *)
(* Every HTTP request runs in its own goroutine, and every mailbox         *)
(* creation starts a watchdog goroutine.  A step of the model is one       *)
(* access to shared memory: a map read made without the mutex, a whole     *)
(* critical section of DManager.mu (Lock, the map operations, Unlock: the  *)
(* sections contain nothing else), or a channel operation.  Statements     *)
(* that only touch goroutine-local data are merged into the neighbouring   *)
(* step.                                                                   *)
(***************************************************************************)
EXTENDS Integers, Sequences, FiniteSets, TLC

\* ------------------------------------------------------------------------
\* Program constants
\* ------------------------------------------------------------------------
LIFE_TIME_IN_SECOND == 15
MAX_BUFFER_NUMBER == 64

SIG_TYPE_UNKNOWN == 0
SIG_TYPE_CANDIDATE == 1
SIG_TYPE_ANSWER == 2
SIG_TYPE_OFFER == 3

StatusOK == 200
StatusBadRequest == 400

\* ------------------------------------------------------------------------
\* Bounds of the model
\* ------------------------------------------------------------------------
\* envelopes pushed in a behaviour
MaxPush == 2
\* pulls started in a behaviour
MaxPull == 2
\* pulls started in a behaviour that starts from the loaded mailbox
MaxPullFull == 1
\* envelopes pushed by the client that fills a mailbox
MaxPushSeq == 65
\* polls of that client once it has pushed them all
MaxPullSeq == 1
\* capacity kept of a daemon's rendezvous mailbox
MaxMail == 2

\* peer identifiers that appear in request paths
Peers == {"A"}
\* peer identifiers that a client may write into an envelope's Target field
Targets == Peers \cup {"B"}
\* request goroutines: two that serve /push, one that serves /pull (a peer
\* polls its mailbox from a single loop: single consumer)
Pushers == {"h1", "h2"}
Pullers == {"h3"}
Handlers == Pushers \cup Pullers
\* the request goroutine of a client that issues its requests one after another
SeqHandlers == {"h1"}

WdPcs == {"loop", "sleep", "clean"}

VARIABLES
    datas,      \* DManager.datas: map peer id -> channel (index into chans)
    alive,      \* DManager.alive: map peer id -> keepalive counter
    chans,      \* heap of channels: [buf, closed]
    th,         \* request goroutines: [pc, id, body, info, ch, mk, ev]
    out,        \* the response written by the step just taken, if any
    wd,         \* watchdog goroutines: per peer id, how many are at each pc
    fatal,      \* the server's process has ended
    nPush,      \* envelopes pushed so far
    nPull,      \* pulls started so far
    offered,    \* history: per peer, envelopes offered to a queue since the last Clean
    accepted,   \* history: per peer, envelopes enqueued since the last Clean
    returned,   \* history: per peer, envelopes pulled since the last Clean
    droppedFull,\* history: SDP numbers of envelopes dropped on a full queue
    delivered,  \* history: SDP numbers of envelopes ever written by a pull
    idle,       \* history: per peer, watchdog ticks since resetAlive last ran
    sender,     \* the *Sender a client tool built (NilSender before, or on failure)
    cl,         \* the client tool's call of Sender.Send: [pc, conn, wrote, read, ret]
    proc,       \* the client tool's process: "running", or how it exited
    pids,       \* the PoolId values created, by holder
    strs,       \* the serialized form last taken of each PoolId, by holder
    impl,       \* a service binding: the fields of its BaseImpl
    call,       \* the last operation called on the binding and what it returned
    node,       \* per daemon: its Node (state, registered transports)
    bring,      \* per daemon: the bring-up request its IPC server is serving
    attempts,   \* history: per daemon, the transports tried by the bring-up
    pool,       \* per daemon: the session records of its pool
    mail,       \* per daemon: the envelopes waiting in its rendezvous mailbox
    emitted,    \* history: the envelopes pushed to the rendezvous, in order
    inbound,    \* history: per daemon, the ids of the offers it has dispatched
    halt        \* why the rendezvous server's process has ended ("" while it runs)

\* the variables of the rendezvous server
sigVars == <<datas, alive, chans, th, out, wd, fatal, nPush, nPull,
             offered, accepted, returned, droppedFull, delivered, idle>>

\* the variables of a client tool talking to its daemon
ipcVars == <<sender, cl, proc>>

\* the variables of the session identifiers
idVars == <<pids, strs>>

\* the variables of a service binding
implVars == <<impl, call>>

\* the variables of the daemons
connVars == <<node, bring, attempts, pool, mail, emitted, inbound>>

\* the variables of the client tools and of the daemon
nodeVars == <<ipcVars, idVars, implVars, connVars, halt>>

\* what the steps of a client tool leave alone
notIpc == <<sigVars, idVars, implVars, connVars, halt>>

\* what the operations on session identifiers leave alone
notId == <<sigVars, ipcVars, implVars, connVars, halt>>

\* what the operations of a service binding leave alone
notImpl == <<sigVars, ipcVars, idVars, connVars, halt>>

\* what the daemons leave alone
notConn == <<sigVars, ipcVars, idVars, implVars, halt>>

\* what the end of the rendezvous server's process leaves alone
notSig == <<ipcVars, idVars, implVars, connVars>>

vars == <<sigVars, nodeVars>>

hist == <<offered, accepted, returned, droppedFull, delivered, idle>>

\* ------------------------------------------------------------------------
\* Go values
\* ------------------------------------------------------------------------
\* types.SignalingInfo; SDP stands for the payload fields and is what tells
\* two envelopes apart (a number for the string, 0 for the empty string)
SignalingInfo(flag, src, tgt, sdp) ==
    [Flag |-> flag, Source |-> src, Target |-> tgt, SDP |-> sdp]

\* the zero value of types.SignalingInfo
ZeroInfo == SignalingInfo(SIG_TYPE_UNKNOWN, "", "", 0)

\* gob.NewEncoder(w).Encode(v): the fields in declaration order
GobEncode(v) == <<v.Flag, v.Source, v.SDP, v.Target>>

\* gob.NewDecoder(r.Body).Decode(&info): an error unless the whole record is there
GobDecode(b) ==
    IF Len(b) = 4
    THEN [err |-> FALSE, info |-> SignalingInfo(b[1], b[2], b[4], b[3])]
    ELSE [err |-> TRUE, info |-> ZeroInfo]

\* a request body cut short in transit
Truncated(b) == SubSeq(b, 1, 2)

\* the nil channel
Nil == 0

\* m[k] of a Go map: the zero value when the key is absent
MapGet(m, k) == IF k \in DOMAIN m THEN m[k] ELSE 0

\* m[k] = v of a Go map
MapPut(m, k, v) == [x \in (DOMAIN m) \cup {k} |-> IF x = k THEN v ELSE m[x]]

\* delete(m, k) of a Go map
MapDelete(m, k) == [x \in (DOMAIN m) \ {k} |-> m[x]]

EmptyMap == [x \in {} |-> 0]

\* make(chan types.SignalingInfo, MAX_BUFFER_NUMBER)
MakeChan == [buf |-> <<>>, closed |-> FALSE]

\* a heap cell whose channel no map entry and no goroutine refers to any more
Freed == [buf |-> <<>>, closed |-> TRUE]

\* the channels some map entry or goroutine still refers to
Referenced(ds, ths) ==
    {ds[p] : p \in DOMAIN ds} \cup {ths[t].ch : t \in DOMAIN ths}

\* garbage collection: unreferenced channels leave the heap
Collect(chs, ds, ths) ==
    [c \in DOMAIN chs |-> IF c \in Referenced(ds, ths) THEN chs[c] ELSE Freed]

\* the heap cell a new channel is allocated in
NewChan(chs, ds, ths) ==
    IF \E c \in DOMAIN chs : c \notin Referenced(ds, ths)
    THEN CHOOSE c \in DOMAIN chs :
            /\ c \notin Referenced(ds, ths)
            /\ \A d \in DOMAIN chs : d \notin Referenced(ds, ths) => c <= d
    ELSE Len(chs) + 1

IdleThread ==
    [pc |-> "idle", id |-> "", body |-> <<>>, info |-> ZeroInfo,
     ch |-> Nil, mk |-> Nil, ev |-> FALSE]

NoResp == [by |-> "", status |-> 0, body |-> <<>>, panic |-> FALSE, log |-> ""]

\* the handler of t returns: net/http sends the status and the body
Reply(t, status, body) ==
    [by |-> t, status |-> status, body |-> body, panic |-> FALSE, log |-> ""]

\* the handler of t panics: net/http recovers and aborts the connection
Aborted(t) == [by |-> t, status |-> 0, body |-> <<>>, panic |-> TRUE, log |-> ""]

\* logrus.Error(msg, err) on the way to the response r
Logged(r, msg) == [r EXCEPT !.log = msg]

\* the numbers lo..hi as a sequence
Range(lo, hi) == [i \in 1..(hi - lo + 1) |-> lo + i - 1]

\* ------------------------------------------------------------------------
\* Initial states
\* ------------------------------------------------------------------------
\* the places that hold a *PoolId: the two ends of a session
Holders == {"dialer", "responder"}

\* a nil *PoolId
NilPoolId == [nil |-> TRUE]

\* the daemons
Nodes == {"n1", "n2"}

\* a daemon before NewNode
NoNode == [st |-> "none", services |-> <<>>]

\* an IPC server that has not accepted a bring-up request
NoBringUp == [pc |-> "idle", i |-> 0, id |-> NilPoolId]

\* no binding has been created
NilImpl == [nil |-> TRUE]

\* no operation has been called on the binding
NoCall == [op |-> "", ret |-> "none"]

\* a nil *Sender
NilSender == [nil |-> TRUE]

\* a client tool that has not called NewSender or Send yet: the arguments
\* of its NewSender call, its position in Send, the connection Send dialed,
\* the requests written to it and replies read from it, the call of Send
\* that failed, and what Send returned
IdleClient == [code |-> 0, optCode |-> 0, pc |-> "idle", conn |-> "none",
               wrote |-> 0, read |-> 0, failed |-> "",
               ret |-> [conn |-> "nil", err |-> FALSE]]

\* no client tool and no daemon has done anything yet
NodeInit ==
    /\ sender = NilSender
    /\ cl = IdleClient
    /\ proc = "running"
    /\ pids = [h \in Holders |-> NilPoolId]
    /\ strs = [h \in Holders |-> <<>>]
    /\ impl = NilImpl
    /\ call = NoCall
    /\ node = [n \in Nodes |-> NoNode]
    /\ bring = [n \in Nodes |-> NoBringUp]
    /\ attempts = [n \in Nodes |-> <<>>]
    /\ pool = [n \in Nodes |-> {}]
    /\ mail = [n \in Nodes |-> <<>>]
    /\ emitted = <<>>
    /\ inbound = [n \in Nodes |-> {}]
    /\ halt = ""

\* NewServer / NewDManager
Init ==
    /\ datas = EmptyMap
    /\ alive = EmptyMap
    /\ chans = <<>>
    /\ th = [t \in Handlers |-> IdleThread]
    /\ out = NoResp
    /\ wd = [p \in Peers |-> [c \in WdPcs |-> 0]]
    /\ fatal = FALSE
    /\ nPush = 0
    /\ nPull = 0
    /\ offered = [p \in Peers |-> <<>>]
    /\ accepted = [p \in Peers |-> <<>>]
    /\ returned = [p \in Peers |-> <<>>]
    /\ droppedFull = {}
    /\ delivered = {}
    /\ idle = [p \in Peers |-> 0]
    /\ NodeInit

\* envelopes already queued for peer "A" in the loaded initial state
Preload == MAX_BUFFER_NUMBER - 1

\* The server after Preload pushes to "A", made one after another within the
\* first second and never pulled: the mailbox of "A" holds them in order, its
\* counter is LIFE_TIME_IN_SECOND and its watchdog is at its first loop test.
InitFull ==
    /\ datas = MapPut(EmptyMap, "A", 1)
    /\ alive = MapPut(EmptyMap, "A", LIFE_TIME_IN_SECOND)
    /\ chans = <<[buf |-> [i \in 1..Preload |->
                              SignalingInfo(SIG_TYPE_OFFER, "S", "A", i)],
                  closed |-> FALSE]>>
    /\ th = [t \in Handlers |-> IdleThread]
    /\ out = NoResp
    /\ wd = [p \in Peers |-> [c \in WdPcs |-> IF p = "A" /\ c = "loop" THEN 1 ELSE 0]]
    /\ fatal = FALSE
    /\ nPush = Preload
    /\ nPull = 0
    /\ offered = [p \in Peers |-> IF p = "A" THEN Range(1, Preload) ELSE <<>>]
    /\ accepted = [p \in Peers |-> IF p = "A" THEN Range(1, Preload) ELSE <<>>]
    /\ returned = [p \in Peers |-> <<>>]
    /\ droppedFull = {}
    /\ delivered = {}
    /\ idle = [p \in Peers |-> 0]
    /\ NodeInit

\* ------------------------------------------------------------------------
\* Server.push
\* ------------------------------------------------------------------------
\* POST /push/{id} arrives with a body that holds an encoded envelope; the
\* path id and the envelope's Target are both written by the client
PushBeginTo(t, max, ids, tgts) ==
    /\ ~fatal
    /\ th[t].pc = "idle"
    /\ nPush < max
    /\ \E id \in ids, tgt \in tgts :
          th' = [th EXCEPT ![t] = [IdleThread EXCEPT !.pc = "decode", !.id = id,
                     !.body = GobEncode(SignalingInfo(SIG_TYPE_OFFER, "S", tgt, nPush + 1))]]
    /\ nPush' = nPush + 1
    /\ out' = NoResp
    /\ UNCHANGED <<datas, alive, chans, wd, fatal, nPull, hist>>
    /\ UNCHANGED nodeVars

\* POST /push/{id} from a client that names peers of ids in both places
PushBegin(t, max, ids) == PushBeginTo(t, max, ids, ids)

\* POST /push/{id} arrives with a body that was cut short
PushBeginBad(t, ids) ==
    /\ ~fatal
    /\ th[t].pc = "idle"
    /\ \E id \in ids :
          th' = [th EXCEPT ![t] = [IdleThread EXCEPT !.pc = "decode", !.id = id,
                     !.body = Truncated(GobEncode(
                                  SignalingInfo(SIG_TYPE_OFFER, "S", id, 0)))]]
    /\ out' = NoResp
    /\ UNCHANGED <<datas, alive, chans, wd, fatal, nPush, nPull, hist>>
    /\ UNCHANGED nodeVars

\* a push handler that does not look at the decode error
PushDecodeIgnoreErr(t) ==
    /\ th[t].pc = "decode"
    /\ out' = NoResp
    /\ th' = [th EXCEPT ![t].pc = "s73", ![t].body = <<>>,
                        ![t].info = GobDecode(th[t].body).info]
    /\ UNCHANGED <<datas, alive, chans, wd, fatal, nPush, nPull, hist>>
    /\ UNCHANGED nodeVars

\* gob decode of the body: 400 and return on an error, else Set(target_id, info)
PushDecode(t) ==
    /\ th[t].pc = "decode"
    /\ LET d == GobDecode(th[t].body)
       IN  IF d.err
           THEN /\ out' = Logged(Reply(t, StatusBadRequest, <<>>),
                                  "binary decode failed:")
                /\ th' = [th EXCEPT ![t] = IdleThread]
           ELSE /\ out' = NoResp
                /\ th' = [th EXCEPT ![t].pc = "s73", ![t].body = <<>>,
                                    ![t].info = d.info]
    /\ UNCHANGED <<datas, alive, chans, wd, fatal, nPush, nPull, hist>>
    /\ UNCHANGED nodeVars

\* ------------------------------------------------------------------------
\* DManager.Set
\* ------------------------------------------------------------------------
\* if dm.datas[id] == nil  (read without the mutex)
Set73(t) ==
    /\ th[t].pc = "s73"
    /\ th' = [th EXCEPT ![t].pc =
                 IF MapGet(datas, th[t].id) = Nil THEN "s74" ELSE "s102"]
    /\ out' = NoResp
    /\ UNCHANGED <<datas, alive, chans, wd, fatal, nPush, nPull, hist>>
    /\ UNCHANGED nodeVars

\* dm.mu.Lock(); dm.datas[id] = make(chan ..., MAX_BUFFER_NUMBER); dm.mu.Unlock()
\* (the channel the entry held before, if any, is no longer in the map)
Set74(t) ==
    /\ th[t].pc = "s74"
    /\ LET c == NewChan(chans, MapDelete(datas, th[t].id), th)
           ds == MapPut(datas, th[t].id, c)
           chs == IF c > Len(chans) THEN Append(chans, MakeChan)
                  ELSE [chans EXCEPT ![c] = MakeChan]
       IN  /\ datas' = ds
           /\ chans' = Collect(chs, ds, th)
           /\ th' = [th EXCEPT ![t].pc = "s80", ![t].mk = c]
    /\ out' = NoResp
    /\ UNCHANGED <<alive, wd, fatal, nPush, nPull, hist>>
    /\ UNCHANGED nodeVars

\* DManager.resetAlive: lock; dm.alive[id] = LIFE_TIME_IN_SECOND; unlock
resetAlive(id) ==
    /\ alive' = MapPut(alive, id, LIFE_TIME_IN_SECOND)
    /\ idle' = [idle EXCEPT ![id] = 0]

\* dm.resetAlive(id), then `go func(...)`: the watchdog goroutine starts at
\* its loop test
Set80(t) ==
    /\ th[t].pc = "s80"
    /\ resetAlive(th[t].id)
    /\ wd' = [wd EXCEPT ![th[t].id]["loop"] = @ + 1]
    /\ th' = [th EXCEPT ![t].pc = "s102"]
    /\ out' = NoResp
    /\ UNCHANGED <<datas, chans, fatal, nPush, nPull,
                   offered, accepted, returned, droppedFull, delivered>>
    /\ UNCHANGED nodeVars

\* select: the channel operand dm.datas[id] is evaluated (read without the
\* mutex)
Set102(t) ==
    /\ th[t].pc = "s102"
    /\ th' = [th EXCEPT ![t].pc = "send", ![t].ch = MapGet(datas, th[t].id)]
    /\ out' = NoResp
    /\ UNCHANGED <<datas, alive, chans, wd, fatal, nPush, nPull, hist>>
    /\ UNCHANGED nodeVars

\* a buffered send that puts the value at the head of the queue
EnqueueFront(q, v) == <<v>> \o q

\* ch <- v on a buffered channel with room: v joins the tail of the queue
Enqueue(q, v) == Append(q, v)

\* room is tested against one slot too many
CanSendOffByOne(c) == Len(c.buf) <= MAX_BUFFER_NUMBER

\* a send on channel c does not have to wait for room
CanSend(c) == Len(c.buf) < MAX_BUFFER_NUMBER

\* the send case of the select is ready: never on a nil channel; on a closed
\* channel it is (and panics)
SendReady(t) ==
    /\ th[t].ch # Nil
    /\ chans[th[t].ch].closed \/ CanSend(chans[th[t].ch])

\* case dm.datas[id] <- info:
SetSendCase(t) ==
    /\ SendReady(t)
    /\ LET c == th[t].ch
           id == th[t].id
           n == th[t].info.SDP
       IN  IF chans[c].closed
           THEN \* send on a closed channel panics
                /\ th' = [th EXCEPT ![t] = IdleThread]
                /\ out' = Aborted(t)
                /\ chans' = Collect(chans, datas, th')
                /\ UNCHANGED hist
           ELSE /\ th' = [th EXCEPT ![t].pc = "s104", ![t].ch = Nil]
                /\ out' = NoResp
                /\ chans' = Collect([chans EXCEPT ![c].buf = Enqueue(@, th[t].info)],
                                    datas, th')
                /\ offered' = [offered EXCEPT ![id] = Append(@, n)]
                /\ accepted' = [accepted EXCEPT ![id] = Append(@, n)]
                /\ UNCHANGED <<returned, droppedFull, delivered, idle>>

\* a select without a default case
SetSendNoDefault(t) ==
    /\ FALSE
    /\ UNCHANGED <<th, out, chans, hist>>

\* default: the envelope is dropped, Set returns and push answers 200
SetSendDefault(t) ==
    /\ ~SendReady(t)
    /\ th' = [th EXCEPT ![t] = IdleThread]
    /\ out' = Reply(t, StatusOK, <<>>)
    /\ chans' = Collect(chans, datas, th')
    /\ IF th[t].ch # Nil
       THEN \* queue full
            /\ offered' = [offered EXCEPT ![th[t].id] = Append(@, th[t].info.SDP)]
            /\ droppedFull' = droppedFull \cup {th[t].info.SDP}
            /\ UNCHANGED <<accepted, returned, delivered, idle>>
       ELSE UNCHANGED hist

\* select { case dm.datas[id] <- info: ... default: }
SetSend(t) ==
    /\ th[t].pc = "send"
    /\ SetSendCase(t) \/ SetSendDefault(t)
    /\ UNCHANGED <<datas, alive, wd, fatal, nPush, nPull>>
    /\ UNCHANGED nodeVars

\* Set returns after the send without resetting the counter
Set104NoReset(t) ==
    /\ th[t].pc = "s104"
    /\ th' = [th EXCEPT ![t] = IdleThread]
    /\ out' = Reply(t, StatusOK, <<>>)
    /\ UNCHANGED <<datas, alive, chans, wd, fatal, nPush, nPull, hist>>
    /\ UNCHANGED nodeVars

\* dm.resetAlive(id); Set returns and push answers 200
Set104(t) ==
    /\ th[t].pc = "s104"
    /\ resetAlive(th[t].id)
    /\ th' = [th EXCEPT ![t] = IdleThread]
    /\ out' = Reply(t, StatusOK, <<>>)
    /\ UNCHANGED <<datas, chans, wd, fatal, nPush, nPull,
                   offered, accepted, returned, droppedFull, delivered>>
    /\ UNCHANGED nodeVars

\* ------------------------------------------------------------------------
\* Server.pull and DManager.Get
\* ------------------------------------------------------------------------
\* GET /pull/{id} arrives
PullBegin(t, max, ids) ==
    /\ ~fatal
    /\ th[t].pc = "idle"
    /\ nPull < max
    /\ \E id \in ids : th' = [th EXCEPT ![t] = [IdleThread EXCEPT !.pc = "g38", !.id = id]]
    /\ nPull' = nPull + 1
    /\ out' = NoResp
    /\ UNCHANGED <<datas, alive, chans, wd, fatal, nPush, hist>>
    /\ UNCHANGED nodeVars

\* DManager.Get: lock; return dm.datas[id]; unlock
Get(t) ==
    /\ th[t].pc = "g38"
    /\ th' = [th EXCEPT ![t].pc = "recv", ![t].ch = MapGet(datas, th[t].id)]
    /\ out' = NoResp
    /\ UNCHANGED <<datas, alive, chans, wd, fatal, nPush, nPull, hist>>
    /\ UNCHANGED nodeVars

\* the receive case of the select is ready: never on a nil channel; on a
\* closed channel always
RecvReady(t) ==
    /\ th[t].ch # Nil
    /\ chans[th[t].ch].buf # <<>> \/ chans[th[t].ch].closed

\* v of `case v := <-ch`: the head of the queue, or the zero value when the
\* channel is closed and drained
RecvValue(c) == IF c.buf # <<>> THEN Head(c.buf) ELSE ZeroInfo

\* case v := <-sv.dm.Get(self_id): the envelope is encoded into the response;
\* when Encode fails (the write to w fails) the error is logged and the
\* handler returns, with nothing but the implicit status written
PullRecvCase(t) ==
    /\ RecvReady(t)
    /\ LET c == th[t].ch
           v == RecvValue(chans[c])
       IN  /\ chans' = Collect([chans EXCEPT ![c].buf =
                                    IF @ # <<>> THEN Tail(@) ELSE @], datas, th')
           /\ returned' = [returned EXCEPT ![th[t].id] =
                               IF th[t].ev THEN @ ELSE Append(@, v.SDP)]
           /\ \E encodeErr \in BOOLEAN :
                 IF encodeErr
                 THEN /\ out' = Logged(Reply(t, StatusOK, <<>>),
                                        "binary encode failed:")
                      /\ delivered' = delivered
                 ELSE /\ out' = Reply(t, StatusOK, GobEncode(v))
                      /\ delivered' = delivered \cup {v.SDP}
           /\ UNCHANGED <<offered, accepted, droppedFull, idle>>

\* default: an empty response
PullRecvDefault(t) ==
    /\ ~RecvReady(t)
    /\ out' = Reply(t, StatusOK, <<>>)
    /\ UNCHANGED <<chans, hist>>

\* select { case v := <-ch: ... default: }
PullRecv(t) ==
    /\ th[t].pc = "recv"
    /\ th' = [th EXCEPT ![t] = IdleThread]
    /\ PullRecvCase(t) \/ PullRecvDefault(t)
    /\ UNCHANGED <<datas, alive, wd, fatal, nPush, nPull>>
    /\ UNCHANGED nodeVars

\* ------------------------------------------------------------------------
\* The watchdog goroutine started by Set
\* ------------------------------------------------------------------------
WdMove(p, from, to) ==
    wd' = [wd EXCEPT ![p] = [c \in WdPcs |->
              wd[p][c] - (IF c = from THEN 1 ELSE 0) + (IF c = to THEN 1 ELSE 0)]]

\* for dmc.alive[id] > 0  (read without the mutex)
WdLoop(p) ==
    /\ wd[p]["loop"] > 0
    /\ WdMove(p, "loop", IF MapGet(alive, p) > 0 THEN "sleep" ELSE "clean")
    /\ out' = NoResp
    /\ UNCHANGED <<datas, alive, chans, th, fatal, nPush, nPull, hist>>
    /\ UNCHANGED nodeVars

\* time.Sleep(time.Second); lock; dmc.alive[id]--; unlock
WdTick(p) ==
    /\ wd[p]["sleep"] > 0
    /\ alive' = MapPut(alive, p, MapGet(alive, p) - 1)
    /\ WdMove(p, "sleep", "loop")
    /\ idle' = [idle EXCEPT ![p] = @ + 1]
    /\ out' = NoResp
    /\ UNCHANGED <<datas, chans, th, fatal, nPush, nPull,
                   offered, accepted, returned, droppedFull, delivered>>
    /\ UNCHANGED nodeVars

\* a Clean that leaves the counter entry behind
CleanLeak(p) ==
    /\ LET chs == IF MapGet(datas, p) # Nil
                  THEN [chans EXCEPT ![datas[p]].closed = TRUE]
                  ELSE chans
       IN  chans' = Collect(chs, MapDelete(datas, p), th)
    /\ datas' = MapDelete(datas, p)
    /\ alive' = alive

\* DManager.Clean: lock; close the channel if there is one; delete both
\* entries; unlock
Clean(p) ==
    /\ LET chs == IF MapGet(datas, p) # Nil
                  THEN [chans EXCEPT ![datas[p]].closed = TRUE]
                  ELSE chans
       IN  chans' = Collect(chs, MapDelete(datas, p), th)
    /\ datas' = MapDelete(datas, p)
    /\ alive' = MapDelete(alive, p)

\* dm.Clean(id), after which the watchdog goroutine ends
WdClean(p) ==
    /\ wd[p]["clean"] > 0
    /\ Clean(p)
    /\ wd' = [wd EXCEPT ![p]["clean"] = @ - 1]
    /\ out' = NoResp
    \* history: a mailbox that is removed ends its epoch
    /\ idle' = [idle EXCEPT ![p] = 0]
    /\ IF p \in DOMAIN datas
       THEN /\ offered' = [offered EXCEPT ![p] = <<>>]
            /\ accepted' = [accepted EXCEPT ![p] = <<>>]
            /\ returned' = [returned EXCEPT ![p] = <<>>]
            /\ th' = [t \in Handlers |->
                        IF th[t].pc \in {"g38", "recv"} /\ th[t].id = p
                        THEN [th[t] EXCEPT !.ev = TRUE] ELSE th[t]]
       ELSE UNCHANGED <<offered, accepted, returned, th>>
    /\ UNCHANGED <<fatal, nPush, nPull, droppedFull, delivered>>
    /\ UNCHANGED nodeVars

\* ------------------------------------------------------------------------
\* Unsynchronised map reads
\* ------------------------------------------------------------------------
\* a goroutine's next step writes dm.datas (inside the mutex)
WritingDatas ==
    \/ \E t \in Handlers : th[t].pc = "s74"
    \/ \E p \in Peers : wd[p]["clean"] > 0

\* a goroutine's next step writes dm.alive (inside the mutex)
WritingAlive ==
    \/ \E t \in Handlers : th[t].pc \in {"s80", "s104"}
    \/ \E p \in Peers : wd[p]["sleep"] > 0 \/ wd[p]["clean"] > 0

\* a goroutine's next step reads dm.datas without the mutex
ReadingDatasUnlocked == \E t \in Handlers : th[t].pc \in {"s73", "s102"}

\* a goroutine's next step reads dm.alive without the mutex
ReadingAliveUnlocked == \E p \in Peers : wd[p]["loop"] > 0

\* The read and the write of two such goroutines can overlap, and the Go
\* runtime aborts the process when it sees it ("concurrent map read and map
\* write"): every goroutine and the whole heap are gone.
MapRaceFatal ==
    /\ \/ ReadingDatasUnlocked /\ WritingDatas
       \/ ReadingAliveUnlocked /\ WritingAlive
    /\ fatal' = TRUE
    /\ datas' = EmptyMap
    /\ alive' = EmptyMap
    /\ chans' = <<>>
    /\ th' = [t \in Handlers |-> IdleThread]
    /\ wd' = [p \in Peers |-> [c \in WdPcs |-> 0]]
    /\ out' = NoResp
    /\ halt' = "runtime: concurrent map read and map write"
    /\ UNCHANGED <<nPush, nPull, hist>>
    /\ UNCHANGED notSig

\* Server.Start: logrus.Fatal(http.ListenAndServe(..)). ListenAndServe
\* returns when it cannot listen on the port or when accepting fails, and
\* logrus.Fatal logs the error and calls os.Exit(1).
ListenAndServeReturns ==
    /\ ~fatal
    /\ fatal' = TRUE
    /\ datas' = EmptyMap
    /\ alive' = EmptyMap
    /\ chans' = <<>>
    /\ th' = [t \in Handlers |-> IdleThread]
    /\ wd' = [p \in Peers |-> [c \in WdPcs |-> 0]]
    /\ out' = NoResp
    /\ halt' = "logrus.Fatal: ListenAndServe"
    /\ UNCHANGED <<nPush, nPull, hist>>
    /\ UNCHANGED notSig

\* ------------------------------------------------------------------------
\* Specifications
\* ------------------------------------------------------------------------
PushStep(t) ==
    \/ PushDecode(t) \/ Set73(t) \/ Set74(t) \/ Set80(t)
    \/ Set102(t) \/ SetSend(t) \/ Set104(t)

PullStep(t) == Get(t) \/ PullRecv(t)

WdStep(p) == WdLoop(p) \/ WdTick(p) \/ WdClean(p)

\* the server under concurrent requests, from start-up
Next ==
    \/ \E t \in Pushers : PushBegin(t, MaxPush, Peers)
    \/ \E t \in Pushers : PushBeginBad(t, Peers)
    \/ \E t \in Pushers : PushStep(t)
    \/ \E t \in Pullers : PullBegin(t, MaxPull, Peers)
    \/ \E t \in Pullers : PullStep(t)
    \/ \E p \in Peers : WdStep(p)
    \/ MapRaceFatal
    \/ ListenAndServeReturns

Spec == Init /\ [][Next]_vars

\* the server under concurrent requests, from a mailbox one short of full
NextFull ==
    \/ \E t \in Pushers : PushBegin(t, Preload + MaxPush, Peers)
    \/ \E t \in Pushers : PushBeginBad(t, Peers)
    \/ \E t \in Pushers : PushStep(t)
    \/ \E t \in Pullers : PullBegin(t, MaxPullFull, Peers)
    \/ \E t \in Pullers : PullStep(t)
    \/ \E p \in Peers : WdStep(p)
    \/ MapRaceFatal
    \/ ListenAndServeReturns

SpecFull == InitFull /\ [][NextFull]_vars

\* the server when one client issues its requests one after another (the
\* watchdogs run concurrently with the requests); goroutines that can take a
\* step eventually take one, new requests need not arrive
NextSeq ==
    \/ \E t \in SeqHandlers : PushBegin(t, MaxPush, Peers)
    \/ \E t \in SeqHandlers : PushBeginBad(t, Peers)
    \/ \E t \in SeqHandlers : PushStep(t)
    \/ \E t \in SeqHandlers : PullBegin(t, MaxPull, Peers)
    \/ \E t \in SeqHandlers : PullStep(t)
    \/ \E p \in Peers : WdStep(p)
    \/ MapRaceFatal
    \/ ListenAndServeReturns

\* the server when one client pushes MaxPushSeq envelopes one after another
\* and polls only once it has pushed them all (the watchdogs run concurrently
\* with its requests)
NextFill ==
    \/ \E t \in SeqHandlers : PushBegin(t, MaxPushSeq, Peers)
    \/ \E t \in SeqHandlers : PushBeginBad(t, Peers)
    \/ \E t \in SeqHandlers : PushStep(t)
    \/ \E t \in SeqHandlers :
          PullBegin(t, IF nPush >= MaxPushSeq THEN MaxPullSeq ELSE 0, Peers)
    \/ \E t \in SeqHandlers : PullStep(t)
    \/ \E p \in Peers : WdStep(p)
    \/ MapRaceFatal
    \/ ListenAndServeReturns

SpecFill == Init /\ [][NextFill]_vars

\* the server when one client issues its requests one after another and
\* writes any peer of Targets into the Target field of its envelopes
NextTarget ==
    \/ \E t \in SeqHandlers : PushBeginTo(t, MaxPush, Peers, Targets)
    \/ \E t \in SeqHandlers : PushBeginBad(t, Peers)
    \/ \E t \in SeqHandlers : PushStep(t)
    \/ \E t \in SeqHandlers : PullBegin(t, MaxPull, Peers)
    \/ \E t \in SeqHandlers : PullStep(t)
    \/ \E p \in Peers : WdStep(p)
    \/ MapRaceFatal
    \/ ListenAndServeReturns

SpecTarget == Init /\ [][NextTarget]_vars

HandlerStep(t) == PushStep(t) \/ PullStep(t)

\* the Go scheduler is preemptive: every goroutine that can run does run
FairSpec ==
    /\ Init /\ [][NextSeq]_vars
    /\ \A t \in SeqHandlers : WF_vars(HandlerStep(t))
    /\ \A p \in Peers : WF_vars(WdStep(p))

\* ------------------------------------------------------------------------
\* The request envelope of the local IPC: Sender
\* ------------------------------------------------------------------------
APP_TYPE_SSH == 0
APP_TYPE_TRANSFER == 9

\* the service opcodes of the registry (the iota block of APP_TYPE_*)
AppCodes == APP_TYPE_SSH..APP_TYPE_TRANSFER

\* an int32 operation opcode that fits the low 8 bits
OptCodes == 0..255

\* the shift between the two halves of Sender.Type
flagLen == 8

\* the mask 0xff of GetOptionCode
OptionMask == 255

\* defaultConfig.LocalTCPPort
LocalTCPPort == 2224

RECURSIVE BitOr(_, _)
\* a | b of two non-negative integers
BitOr(a, b) ==
    IF a = 0 THEN b
    ELSE IF b = 0 THEN a
    ELSE 2 * BitOr(a \div 2, b \div 2) + (IF a % 2 = 1 \/ b % 2 = 1 THEN 1 ELSE 0)

RECURSIVE BitAnd(_, _)
\* a & b of two non-negative integers
BitAnd(a, b) ==
    IF a = 0 \/ b = 0 THEN 0
    ELSE 2 * BitAnd(a \div 2, b \div 2) + (IF a % 2 = 1 /\ b % 2 = 1 THEN 1 ELSE 0)

\* a << n
ShiftLeft(a, n) == a * 2^n

\* a >> n (arithmetic)
ShiftRight(a, n) == a \div 2^n

\* (imp.Code() << flagLen) | optCode
PackType(code, optCode) == BitOr(ShiftLeft(code, flagLen), optCode)

\* the option opcode is read through a 7-bit mask
GetOptionCodeMask7(sd) == BitAnd(sd.Type, 127)

\* Sender.GetOptionCode
GetOptionCode(sd) == BitAnd(sd.Type, OptionMask)

\* Sender.GetAppCode
GetAppCode(sd) == ShiftRight(sd.Type, flagLen)

\* gob.NewEncoder(&buf).Encode(imp): the exported fields of the binding
GobEncodeImpl(imp) == <<imp.HId, imp.Parent, imp.PId, imp.ConnectNow>>

\* the service bindings a client tool hands to NewSender; a binding holding
\* a value gob cannot encode makes Encode fail
Imps ==
    [code : AppCodes, HId : {"hostB"}, Parent : {""}, PId : {"conn_0_7_0"},
     ConnectNow : {TRUE}, encodable : BOOLEAN]

\* what conf.NewConfManager("") runs into: nothing, or an error reading,
\* writing or unmarshalling the configuration file
ConfOutcomes == {"ok", "error"}

\* NewSender(imp, optCode); conf is the outcome of the NewConfManager call
\* it makes, which ends the process on an error
NewSender ==
    /\ proc = "running"
    /\ sender = NilSender
    /\ cl.pc = "idle"
    /\ \E imp \in Imps, optCode \in OptCodes, conf \in ConfOutcomes :
          /\ IF ~imp.encodable
             THEN \* Encode fails: logged, NewSender returns nil
                  UNCHANGED <<sender, proc>>
             ELSE IF conf # "ok"
             THEN \* NewConfManager: logrus.Error(err); os.Exit(1)
                  /\ proc' = "exit: configuration"
                  /\ UNCHANGED sender
             ELSE /\ sender' = [nil |-> FALSE,
                                Type |-> PackType(imp.code, optCode),
                                PairId |-> imp.PId,
                                Detach |-> FALSE,
                                LocalEntry |-> <<"127.0.0.1", LocalTCPPort>>,
                                Payload |-> GobEncodeImpl(imp),
                                Status |-> 0]
                  /\ UNCHANGED proc
          /\ cl' = [cl EXCEPT !.code = imp.code, !.optCode = optCode,
                              !.pc = "new"]
    /\ UNCHANGED notIpc

\* the Status a daemon puts in its reply: 0, or non-zero for a request it
\* could not serve
ReplyStatus == {0, 1}

\* return nil, err
SendError(c, what) ==
    [c EXCEPT !.pc = "done", !.failed = what,
              !.ret = [conn |-> "nil", err |-> TRUE]]

\* Send: conn, err := net.Dial("tcp", sender.LocalEntry)
SendDial ==
    /\ proc = "running"
    /\ cl.pc = "new"
    /\ ~sender.nil
    /\ \E ok \in BOOLEAN :
          cl' = IF ok THEN [cl EXCEPT !.pc = "dialed", !.conn = "open"]
                ELSE SendError(cl, "dial")
    /\ UNCHANGED <<sender, proc, notIpc>>

\* Send: err = gob.NewEncoder(conn).Encode(sender)
SendEncode ==
    /\ cl.pc = "dialed"
    /\ \E ok \in BOOLEAN :
          cl' = IF ok THEN [cl EXCEPT !.pc = "encoded", !.wrote = @ + 1]
                ELSE SendError(cl, "encode")
    /\ UNCHANGED <<sender, proc, notIpc>>

\* Send: err = gob.NewDecoder(conn).Decode(sender); the reply overwrites the
\* Status of the envelope
SendDecode ==
    /\ cl.pc = "encoded"
    /\ \/ \E st \in ReplyStatus :
             /\ cl' = [cl EXCEPT !.pc = "decoded", !.read = @ + 1]
             /\ sender' = [sender EXCEPT !.Status = st]
       \/ /\ cl' = SendError(cl, "decode")
          /\ UNCHANGED sender
    /\ UNCHANGED <<proc, notIpc>>

\* Send returns the connection whatever the Status of the reply
SendReturnAnyStatus ==
    /\ cl.pc = "decoded"
    /\ cl' = [cl EXCEPT !.pc = "done", !.ret = [conn |-> cl.conn, err |-> FALSE]]
    /\ UNCHANGED <<sender, proc, notIpc>>

\* Send: if sender.Status != 0 { return nil, error }; return conn, nil
SendReturn ==
    /\ cl.pc = "decoded"
    /\ cl' = IF sender.Status # 0
             THEN [cl EXCEPT !.pc = "done", !.ret = [conn |-> "nil", err |-> TRUE]]
             ELSE [cl EXCEPT !.pc = "done", !.ret = [conn |-> cl.conn, err |-> FALSE]]
    /\ UNCHANGED <<sender, proc, notIpc>>

\* Sender.Send, statement by statement
Send == SendDial \/ SendEncode \/ SendDecode \/ SendReturn

\* GetImpl(code) of the registry: an empty binding of the service's type
GetImpl(code) ==
    [HId |-> "", conn |-> "nil", open |-> FALSE, Parent |-> "", PId |-> "",
     ConnectNow |-> FALSE]

\* gob.NewDecoder(buf).Decode(impl): an error unless the whole record is
\* there; the fields decoded are stored in the binding
GobDecodeImpl(b, imp) ==
    IF Len(b) = 4
    THEN [err |-> FALSE,
          impl |-> [imp EXCEPT !.HId = b[1], !.Parent = b[2], !.PId = b[3],
                               !.ConnectNow = b[4]]]
    ELSE [err |-> TRUE, impl |-> imp]

\* Sender.GetImpl, called by the daemon on the envelope it has read: the
\* payload decoded into an empty binding of the service; a decode error is
\* logged and the binding is returned
SenderGetImpl ==
    /\ cl.pc = "encoded"
    /\ call = NoCall
    /\ \E payload \in {sender.Payload, Truncated(sender.Payload)} :
          LET d == GobDecodeImpl(payload, GetImpl(GetAppCode(sender))) IN
          /\ impl' = d.impl
          /\ call' = [op |-> "GetImpl",
                       ret |-> IF d.err THEN "logrus.Error(err)" ELSE "none"]
    /\ UNCHANGED <<ipcVars, sigVars, idVars, connVars, halt>>

\* a client tool building request envelopes
NextIPC ==
    \/ NewSender
    \/ Send
    \/ SenderGetImpl

SpecIPC == Init /\ [][NextIPC]_vars

\* ------------------------------------------------------------------------
\* Session identifiers: PoolId
\* ------------------------------------------------------------------------
\* the id int64 arguments of NewPoolId (timestamps in the program)
PoolValues == {7, 71, 710}

\* the impc int32 arguments of NewPoolId
PoolImplCodes == {APP_TYPE_SSH, 1, APP_TYPE_TRANSFER}

\* the direct int32 arguments of String
Directions == {0, 1}

\* the decimal digits
Digit(d) == <<"0", "1", "2", "3", "4", "5", "6", "7", "8", "9">>[d + 1]

RECURSIVE Digits(_)
\* the decimal digits of a non-negative integer
Digits(n) == IF n < 10 THEN <<Digit(n)>> ELSE Digits(n \div 10) \o <<Digit(n % 10)>>

\* the verb %d of fmt.Sprintf
FormatInt(n) == IF n < 0 THEN <<"-">> \o Digits(-n) ELSE Digits(n)

\* NewPoolId(id, impc): Direction keeps its zero value
NewPoolId(id, impc) == [Value |-> id, Direction |-> 0, ImplCode |-> impc]

\* PoolId.String(direct): fmt.Sprintf("conn_%d_%d_%d", pd.ImplCode, pd.Value, direct)
String(pd, direct) ==
    <<"c", "o", "n", "n", "_">> \o FormatInt(pd.ImplCode) \o <<"_">>
        \o FormatInt(pd.Value) \o <<"_">> \o FormatInt(direct)

\* PoolId.Raw
Raw(pd) == pd.Value

\* one end of a session creates its identifier
CreatePoolId(h) ==
    /\ pids[h] = NilPoolId
    /\ \E id \in PoolValues, impc \in PoolImplCodes :
          pids' = [pids EXCEPT ![h] = NewPoolId(id, impc)]
    /\ UNCHANGED <<strs, notId>>

\* one end of a session serializes its identifier
Serialize(h) ==
    /\ pids[h] # NilPoolId
    /\ \E direct \in Directions :
          strs' = [strs EXCEPT ![h] = String(pids[h], direct)]
    /\ UNCHANGED <<pids, notId>>

\* the two ends of a session creating and serializing their identifiers
NextId ==
    \/ \E h \in Holders : CreatePoolId(h)
    \/ \E h \in Holders : Serialize(h)

SpecId == Init /\ [][NextId]_vars

\* ------------------------------------------------------------------------
\* Service bindings: BaseImpl
\* ------------------------------------------------------------------------
\* the identifiers handed to the setters of a binding
ImplIds == {"", "id1"}

\* the connections handed to SetConn
ImplConns == {"c1"}

\* NewBaseImpl(hid); conn is nil, Parent and PId are empty
NewBaseImpl(hid) ==
    [HId |-> hid, conn |-> "nil", open |-> FALSE, Parent |-> "", PId |-> "",
     ConnectNow |-> TRUE]

\* BaseImpl.IsNeedConnect
IsNeedConnect(base) == base.ConnectNow

\* a call of op that returns ret
Called(op, ret) == call' = [op |-> op, ret |-> ret]

\* a service constructor creates the binding
CreateImpl ==
    /\ impl = NilImpl
    /\ \E hid \in ImplIds : impl' = NewBaseImpl(hid)
    /\ Called("NewBaseImpl", "none")
    /\ UNCHANGED notImpl

\* BaseImpl.NoNeedConnect
NoNeedConnect ==
    /\ impl # NilImpl
    /\ impl' = [impl EXCEPT !.ConnectNow = FALSE]
    /\ Called("NoNeedConnect", "none")
    /\ UNCHANGED notImpl

\* BaseImpl.SetHostId (an empty id is set too, with a warning)
SetHostId ==
    /\ impl # NilImpl
    /\ \E id \in ImplIds : impl' = [impl EXCEPT !.HId = id]
    /\ Called("SetHostId", "none")
    /\ UNCHANGED notImpl

\* BaseImpl.SetPairId
SetPairId ==
    /\ impl # NilImpl
    /\ \E id \in ImplIds : impl' = [impl EXCEPT !.PId = id]
    /\ Called("SetPairId", "none")
    /\ UNCHANGED notImpl

\* BaseImpl.SetParentId
SetParentId ==
    /\ impl # NilImpl
    /\ \E id \in ImplIds : impl' = [impl EXCEPT !.Parent = id]
    /\ Called("SetParentId", "none")
    /\ UNCHANGED notImpl

\* SetConn stores the connection and asks for a connection again
SetConnReconnect ==
    /\ impl # NilImpl
    /\ \E c \in ImplConns :
          impl' = [impl EXCEPT !.conn = c, !.open = TRUE, !.ConnectNow = TRUE]
    /\ Called("SetConn", "none")
    /\ UNCHANGED notImpl

\* BaseImpl.SetConn
SetConn ==
    /\ impl # NilImpl
    /\ \E c \in ImplConns : impl' = [impl EXCEPT !.conn = c, !.open = TRUE]
    /\ Called("SetConn", "none")
    /\ UNCHANGED notImpl

\* BaseImpl.Conn, Reader, Writer, ReadWriteCloser: *base.conn under the
\* lock; a nil conn is a nil pointer dereference
Conn ==
    /\ impl # NilImpl
    /\ \E op \in {"Conn", "Reader", "Writer", "ReadWriteCloser"} :
          Called(op, IF impl.conn = "nil" THEN "panic" ELSE impl.conn)
    /\ UNCHANGED <<impl, notImpl>>

\* BaseImpl.HostId, PairId, ParentId, IsNeedConnect
Getter ==
    /\ impl # NilImpl
    /\ \/ Called("HostId", impl.HId)
       \/ Called("PairId", impl.PId)
       \/ Called("ParentId", impl.Parent)
       \/ Called("IsNeedConnect", IsNeedConnect(impl))
    /\ UNCHANGED <<impl, notImpl>>

\* BaseImpl.Init, Preper, Response, Dial, Attach: nothing is done, the ones
\* with a result return nil
NoOp ==
    /\ impl # NilImpl
    /\ \/ Called("Init", "none")
       \/ \E op \in {"Preper", "Response", "Dial", "Attach"} : Called(op, "nil")
    /\ UNCHANGED <<impl, notImpl>>

\* BaseImpl.Close: closes the connection when there is one
Close ==
    /\ impl # NilImpl
    /\ impl' = IF impl.conn # "nil" THEN [impl EXCEPT !.open = FALSE] ELSE impl
    /\ Called("Close", "none")
    /\ UNCHANGED notImpl

\* the operations of a binding, in any order
NextImpl ==
    \/ CreateImpl
    \/ NoNeedConnect
    \/ SetHostId
    \/ SetPairId
    \/ SetParentId
    \/ SetConn
    \/ Conn
    \/ Getter
    \/ NoOp
    \/ Close

SpecImpl == Init /\ [][NextImpl]_vars

\* ------------------------------------------------------------------------
\* The daemon: Node, connection manager, session pool, peer handshake
\* ------------------------------------------------------------------------
\* conn.NewDirectService(..): the direct TCP transport
DirectService == "direct"

\* conn.NewWebRTCService(..): the peer data channel transport
WebRTCService == "webrtc"

\* NewNode registers the WebRTC service before the direct service
enabledServiceSwapped == <<WebRTCService, DirectService>>

\* NewNode: enabledService := []conn.ConnectionService{NewDirectService(..),
\* NewWebRTCService(..)}
enabledService == <<DirectService, WebRTCService>>

\* the numeric values a daemon's clock gives to the sessions it creates
SessionValues == {7, 8}

\* the services sessions are brought up for
SessionCodes == {APP_TYPE_SSH}

\* the other daemon
Remote(n) == CHOOSE m \in Nodes : m # n

\* NewNode(home): NewConfManager ends the process on a configuration
\* error; otherwise the manager is built over enabledService
NewNode(n) ==
    /\ node[n].st = "none"
    /\ \E conf \in ConfOutcomes :
          node' = [node EXCEPT ![n] =
                     IF conf = "ok"
                     THEN [st |-> "new", services |-> enabledService]
                     ELSE [st |-> "exit: configuration", services |-> <<>>]]
    /\ UNCHANGED <<bring, attempts, pool, mail, emitted, inbound, notConn>>

\* Node.Start: running = true; go connMgr.Start(); ServeTCP()
Start(n) ==
    /\ node[n].st = "new"
    /\ node' = [node EXCEPT ![n].st = "running"]
    /\ UNCHANGED <<bring, attempts, pool, mail, emitted, inbound, notConn>>

\* Node.Stop: running = false; connMgr.Stop()
Stop(n) ==
    /\ node[n].st = "running"
    /\ node' = [node EXCEPT ![n].st = "stopped"]
    /\ UNCHANGED <<bring, attempts, pool, mail, emitted, inbound, notConn>>

\* a session record of the pool
Session(id, dir, peer) ==
    [id |-> id, dir |-> dir, peer |-> peer, st |-> "Idle", transport |-> "none"]

\* the records of a pool for the same pair of sessions as id: same numeric
\* value and same service opcode, whatever the direction
SamePair(p, id) == {r \in p : r.id.Value = id.Value /\ r.id.ImplCode = id.ImplCode}

\* Create tells the records of the two directions apart
CreateByDirection(p, id, dir, peer) ==
    IF \E r \in SamePair(p, id) : r.dir = dir THEN p
    ELSE p \cup {Session(id, dir, peer)}

\* pool Create, under the pool's guard: one record per (value, service)
Create(p, id, dir, peer) ==
    IF SamePair(p, id) # {} THEN p ELSE p \cup {Session(id, dir, peer)}

\* no session record
NilSession == [nil |-> TRUE]

\* pool Lookup
Lookup(p, id) ==
    IF SamePair(p, id) = {} THEN NilSession ELSE CHOOSE r \in SamePair(p, id) : TRUE

\* pool Dispose
Dispose(p, id) == p \ SamePair(p, id)

\* the record r of a pool replaced by q
Replace(p, r, q) == (p \ {r}) \cup {q}

\* a signaling envelope about session id
Envelope(flag, src, dst, id) ==
    [Flag |-> flag, Source |-> src, Target |-> dst, Id |-> id,
     RemoteRequestType |-> id.ImplCode]

\* POST /push/{Target}: the envelope joins the target's mailbox unless the
\* mailbox is full
Push(e) ==
    /\ emitted' = Append(emitted, e)
    /\ mail' = [mail EXCEPT ![e.Target] =
                  IF Len(@) < MaxMail THEN Append(@, e) ELSE @]

\* the IPC server accepts a bring-up request: a session is requested from
\* the pool under a fresh numeric value
BringUp(n) ==
    /\ node[n].st = "running"
    /\ bring[n].pc = "idle"
    /\ \E v \in SessionValues, code \in SessionCodes :
          LET id == NewPoolId(v, code) IN
          /\ bring' = [bring EXCEPT ![n] = [pc |-> "try", i |-> 1, id |-> id]]
          /\ pool' = [pool EXCEPT ![n] = Create(@, id, "outbound", Remote(n))]
    /\ UNCHANGED <<node, attempts, mail, emitted, inbound, notConn>>

\* the connection manager tries the next registered transport: a direct
\* dial that succeeds yields the byte-stream, one that fails leaves the turn
\* to the next transport; the peer transport starts the dialer path by
\* emitting the offer
TryService(n) ==
    /\ node[n].st = "running"
    /\ bring[n].pc = "try"
    /\ LET id == bring[n].id
           r == Lookup(pool[n], id)
       IN
       IF bring[n].i > Len(node[n].services) \/ r = NilSession
       THEN /\ bring' = [bring EXCEPT ![n].pc = "failed"]
            /\ pool' = [pool EXCEPT ![n] = Dispose(@, id)]
            /\ UNCHANGED <<attempts, mail, emitted>>
       ELSE IF node[n].services[bring[n].i] = DirectService
       THEN \E ok \in BOOLEAN :
               /\ attempts' = [attempts EXCEPT ![n] =
                                 Append(@, [svc |-> DirectService, ok |-> ok])]
               /\ IF ok
                  THEN /\ bring' = [bring EXCEPT ![n].pc = "done"]
                       /\ pool' = [pool EXCEPT ![n] =
                                     Replace(@, r, [r EXCEPT !.transport = DirectService])]
                  ELSE /\ bring' = [bring EXCEPT ![n].i = @ + 1]
                       /\ UNCHANGED pool
               /\ UNCHANGED <<mail, emitted>>
       ELSE /\ attempts' = [attempts EXCEPT ![n] =
                              Append(@, [svc |-> WebRTCService, ok |-> TRUE])]
            /\ bring' = [bring EXCEPT ![n].pc = "peer"]
            /\ IF r.st = "Idle"
               THEN /\ pool' = [pool EXCEPT ![n] =
                                  Replace(@, r, [r EXCEPT !.st = "LocalOffered"])]
                    /\ Push(Envelope(SIG_TYPE_OFFER, n, Remote(n), id))
               ELSE UNCHANGED <<pool, mail, emitted>>
    /\ UNCHANGED <<node, inbound, notConn>>

\* the signaling loop pulls one envelope and dispatches it by Flag: an
\* offer creates the inbound record and enters the responder path, an answer
\* is applied to the session it names, other flags are ignored
SignalingLoop(n) ==
    /\ node[n].st = "running"
    /\ mail[n] # <<>>
    /\ LET e == Head(mail[n])
           known == SamePair(pool[n], e.Id) # {}
       IN
       /\ mail' = [mail EXCEPT ![n] = Tail(@)]
       /\ IF e.Flag = SIG_TYPE_OFFER
          THEN /\ inbound' = [inbound EXCEPT ![n] = @ \cup {e.Id}]
               /\ LET p == Create(pool[n], e.Id, "inbound", e.Source)
                      r == Session(e.Id, "inbound", e.Source)
                  IN pool' = [pool EXCEPT ![n] =
                                IF r \in p /\ r \notin pool[n]
                                THEN Replace(p, r, [r EXCEPT !.st = "RemoteOffered"])
                                ELSE p]
          ELSE IF e.Flag = SIG_TYPE_ANSWER /\ known
                  /\ Lookup(pool[n], e.Id).st = "LocalOffered"
          THEN /\ pool' = [pool EXCEPT ![n] =
                            Replace(@, Lookup(@, e.Id),
                                    [Lookup(@, e.Id) EXCEPT !.st = "Answered"])]
               /\ UNCHANGED inbound
          ELSE UNCHANGED <<pool, inbound>>
    /\ UNCHANGED <<node, bring, attempts, emitted, notConn>>

\* the dialer opens its channel without waiting for the answer
HandshakeSkipAnswer(n) ==
    /\ node[n].st = "running"
    /\ \E r \in pool[n] :
          /\ r.st \in {"LocalOffered", "Connecting"}
          /\ pool' = [pool EXCEPT ![n] =
                        Replace(@, r, [r EXCEPT !.st = "Open",
                                                !.transport = WebRTCService])]
          /\ bring' = IF r.dir = "outbound" /\ bring[n].pc = "peer"
                      THEN [bring EXCEPT ![n].pc = "done"] ELSE bring
    /\ UNCHANGED <<mail, emitted>>
    /\ UNCHANGED <<node, attempts, inbound, notConn>>

\* one step of a session's handshake: the responder emits its answer, an
\* answered session starts connecting, and a connecting session opens when
\* the channel signals open
Handshake(n) ==
    /\ node[n].st = "running"
    /\ \E r \in pool[n] :
          \/ /\ r.st = "RemoteOffered"
             /\ pool' = [pool EXCEPT ![n] = Replace(@, r, [r EXCEPT !.st = "Answered"])]
             /\ Push(Envelope(SIG_TYPE_ANSWER, n, r.peer, r.id))
             /\ UNCHANGED bring
          \/ /\ r.st = "Answered"
             /\ pool' = [pool EXCEPT ![n] = Replace(@, r, [r EXCEPT !.st = "Connecting"])]
             /\ UNCHANGED <<bring, mail, emitted>>
          \/ /\ r.st = "Connecting"
             /\ pool' = [pool EXCEPT ![n] =
                           Replace(@, r, [r EXCEPT !.st = "Open",
                                                   !.transport = WebRTCService])]
             /\ bring' = IF r.dir = "outbound" /\ bring[n].pc = "peer"
                         THEN [bring EXCEPT ![n].pc = "done"] ELSE bring
             /\ UNCHANGED <<mail, emitted>>
    /\ UNCHANGED <<node, attempts, inbound, notConn>>

\* a handshake that does not complete in its window is closed and its
\* session removed
Timeout(n) ==
    /\ node[n].st = "running"
    /\ \E r \in pool[n] :
          /\ r.st \in {"LocalOffered", "RemoteOffered", "Answered", "Connecting"}
          /\ pool' = [pool EXCEPT ![n] = @ \ {r}]
          /\ bring' = IF r.dir = "outbound" /\ bring[n].pc = "peer"
                      THEN [bring EXCEPT ![n].pc = "failed"] ELSE bring
    /\ UNCHANGED <<node, attempts, mail, emitted, inbound, notConn>>

\* the rendezvous evicts an idle mailbox with what it holds
Evict(n) ==
    /\ mail[n] # <<>>
    /\ mail' = [mail EXCEPT ![n] = <<>>]
    /\ UNCHANGED <<node, bring, attempts, pool, emitted, inbound, notConn>>

\* two daemons serving bring-up requests and running their signaling loops
NextConn ==
    \/ \E n \in Nodes : NewNode(n)
    \/ \E n \in Nodes : Start(n)
    \/ \E n \in Nodes : Stop(n)
    \/ \E n \in Nodes : BringUp(n)
    \/ \E n \in Nodes : TryService(n)
    \/ \E n \in Nodes : SignalingLoop(n)
    \/ \E n \in Nodes : Handshake(n)
    \/ \E n \in Nodes : Timeout(n)
    \/ \E n \in Nodes : Evict(n)

SpecConn == Init /\ [][NextConn]_vars

\* ------------------------------------------------------------------------
\* Properties
\* ------------------------------------------------------------------------
\* the queue of the mailbox of p
Queue(p) == chans[datas[p]].buf

\* the position of x in the sequence s
Pos(s, x) == CHOOSE i \in 1..Len(s) : s[i] = x

\* s takes its elements from r, each at most once, in the order of r
InOrder(s, r) ==
    \A i \in 1..Len(s) :
        /\ \E k \in 1..Len(r) : r[k] = s[i]
        /\ \A j \in (i + 1)..Len(s) :
              /\ s[j] # s[i]
              /\ (\E k \in 1..Len(r) : r[k] = s[j]) => Pos(r, s[i]) < Pos(r, s[j])

\* C1: in every reachable state no queue holds more than MAX_BUFFER_NUMBER
\* envelopes.
C1_QueueBounded ==
    \A c \in DOMAIN chans : Len(chans[c].buf) <= MAX_BUFFER_NUMBER

\* C1 case: a mailbox whose queue is at its capacity after an envelope was
\* offered to it in vain.
C1_Witness ==
    /\ droppedFull # {}
    /\ \E p \in DOMAIN datas : Len(Queue(p)) = MAX_BUFFER_NUMBER

\* C2: once more than MAX_BUFFER_NUMBER envelopes have been offered, by calls
\* of Set made one after another, to a mailbox that was created for the first
\* of them, with no dequeue and no eviction since, the queue holds exactly
\* the first MAX_BUFFER_NUMBER of them in the order they were offered and
\* every later one was dropped; a dropped envelope is in no queue and no pull
\* ever returns it.
C2_FullDrops ==
    /\ \A p \in DOMAIN datas :
          (returned[p] = <<>> /\ Len(offered[p]) > MAX_BUFFER_NUMBER) =>
              /\ Len(Queue(p)) = MAX_BUFFER_NUMBER
              /\ \A i \in 1..MAX_BUFFER_NUMBER : Queue(p)[i].SDP = offered[p][i]
              /\ \A i \in (MAX_BUFFER_NUMBER + 1)..Len(offered[p]) :
                    offered[p][i] \in droppedFull
    /\ \A n \in droppedFull :
          /\ n \notin delivered
          /\ \A c \in DOMAIN chans : \A i \in 1..Len(chans[c].buf) :
                chans[c].buf[i].SDP # n

\* C2 case: an envelope was dropped on the full queue and a later pull
\* returned the oldest queued envelope.
C2_Witness ==
    /\ droppedFull # {}
    /\ 1 \in delivered

\* C3: as long as the mailbox of a peer is not evicted, the envelopes its
\* pulls return are envelopes Set enqueued for it, each returned at most
\* once and in the order Set enqueued them.
C3_FifoOrder ==
    \A p \in Peers : InOrder(returned[p], accepted[p])

\* the step evicts the mailbox of p
Evicts(p) == p \in DOMAIN datas /\ p \notin DOMAIN datas' /\ ~fatal'

\* call t of Set, which created the mailbox and still finds its channel in
\* the map, returns
CreatorReturns(t) ==
    /\ th[t].pc = "s104" /\ th'[t].pc = "idle" /\ ~fatal'
    /\ th[t].mk # Nil
    /\ MapGet(datas, th[t].id) = th[t].mk

AbsentOrEmpty(p) == MapGet(datas, p) = Nil \/ Queue(p) = <<>>

\* the channel Get handed to pull t holds no envelope
NothingToReceive(t) == th[t].ch = Nil \/ chans[th[t].ch].buf = <<>>

\* C5: a pull whose select runs while the mailbox of its peer is absent or
\* empty, and while the channel Get returned holds no envelope, answers 200
\* with an empty body and leaves the maps and the queues of the mailboxes as
\* they were.
C5_EmptyPull ==
    [][\A t \in Handlers :
          (th[t].pc = "recv" /\ th'[t].pc = "idle" /\ ~fatal'
              /\ AbsentOrEmpty(th[t].id) /\ NothingToReceive(t)) =>
              /\ out' = Reply(t, StatusOK, <<>>)
              /\ datas' = datas
              /\ alive' = alive
              /\ \A p \in DOMAIN datas : chans'[datas[p]] = chans[datas[p]]]_vars

\* C6: a push whose body does not decode logs the error, answers 400 and
\* leaves the maps, the queues and the watchdogs as they were.
C6_BadBody ==
    [][\A t \in Handlers :
          (th[t].pc = "decode" /\ th'[t] # th[t] /\ ~fatal'
              /\ GobDecode(th[t].body).err) =>
              /\ out' = Logged(Reply(t, StatusBadRequest, <<>>),
                                "binary decode failed:")
              /\ UNCHANGED <<datas, alive, chans, wd>>]_vars

\* C6 case: a push with a truncated body was answered 400 while a mailbox
\* with a queued envelope exists.
C6_Witness ==
    /\ out.status = StatusBadRequest
    /\ \E p \in DOMAIN datas : Queue(p) # <<>>

\* C7: a call of Set that has reached its send can always take it, whatever
\* the queue holds: it never waits for room.
C7_SetNeverBlocks ==
    \A t \in Pushers : th[t].pc = "send" => ENABLED SetSend(t)

\* C7 case: a call of Set is at its send on an open queue that is full.
C7_Witness ==
    \E t \in Pushers :
        /\ th[t].pc = "send"
        /\ th[t].ch # Nil
        /\ ~chans[th[t].ch].closed
        /\ Len(chans[th[t].ch].buf) = MAX_BUFFER_NUMBER

\* the watchdog goroutines of p
WdCount(p) == wd[p]["loop"] + wd[p]["sleep"] + wd[p]["clean"]

\* C8: every peer that has a mailbox has exactly one watchdog goroutine (none
\* yet while the Set that created the mailbox has not reached its go
\* statement).
C8_OneWatchdog ==
    \A p \in DOMAIN datas :
        \/ WdCount(p) = 1
        \/ WdCount(p) = 0 /\ \E t \in Handlers : th[t].pc = "s80" /\ th[t].id = p

\* C9: every keepalive counter is between 0 and LIFE_TIME_IN_SECOND.
C9_CounterRange ==
    \A p \in DOMAIN alive : alive[p] \in 0..LIFE_TIME_IN_SECOND

\* C10: no goroutine reads or writes the mailbox map or the counter map
\* outside the mutex.
C10_UnderMutex == ~ReadingDatasUnlocked /\ ~ReadingAliveUnlocked

\* the failure the step ran into, other than a decode error: an encode error
\* it logged, or a panic
OtherFailure(r) == r.panic \/ r.log = "binary encode failed:"

\* C11: a request of the rendezvous endpoint that fails otherwise than by a
\* decode error, in particular a pull that cannot encode the envelope it has
\* dequeued, is answered with status 500.
C11_Failure500 ==
    [][\A t \in Handlers :
          (out'.by = t /\ OtherFailure(out')) => out'.status = 500]_vars

\* C12: the Type of every request envelope NewSender builds from a service
\* opcode s of the registry and an operation opcode o of 0..255 equals
\* (s << flagLen) | o, and GetAppCode and GetOptionCode give s and o back.
C12_TypeRoundTrip ==
    ~sender.nil =>
        /\ cl.code \in AppCodes
        /\ cl.optCode \in OptCodes
        /\ sender.Type = PackType(cl.code, cl.optCode)
        /\ GetAppCode(sender) = cl.code
        /\ GetOptionCode(sender) = cl.optCode

\* C12 case: an envelope for the last service of the registry and the
\* largest operation opcode.
C12_Witness ==
    /\ ~sender.nil
    /\ cl.code = APP_TYPE_TRANSFER
    /\ cl.optCode = 255
    /\ GetAppCode(sender) = APP_TYPE_TRANSFER
    /\ GetOptionCode(sender) = 255

\* C13: Send returns the connection only when it is open, exactly one
\* request has been written to it and one reply decoded from it, and the
\* reply has Status 0; when the dial, the encode or the decode fails, or the
\* Status is not 0, it returns an error and no connection.
C13_SendResult ==
    cl.pc = "done" =>
        /\ cl.ret.conn # "nil" =>
              /\ ~cl.ret.err
              /\ cl.ret.conn = "open"
              /\ cl.wrote = 1 /\ cl.read = 1
              /\ cl.failed = "" /\ sender.Status = 0
        /\ (cl.failed # "" \/ sender.Status # 0) =>
              cl.ret.err /\ cl.ret.conn = "nil"
        /\ cl.ret.err <=> cl.ret.conn = "nil"

\* C13 case: Send has returned after a reply with a non-zero Status.
C13_Witness ==
    /\ cl.pc = "done" /\ cl.read = 1 /\ sender.Status # 0
    /\ cl.ret.err /\ cl.ret.conn = "nil"

\* the form conn_{service}_{value}_{direction} of an identifier's own fields
OwnForm(pd) == String(pd, pd.Direction)

\* C14: the serialized form of a session identifier is built from its own
\* three fields, so the serialized forms of two identifiers are equal
\* exactly when their three fields are equal.
C14_IdString ==
    \A g, h \in Holders :
        (strs[g] # <<>> /\ strs[h] # <<>>) =>
            /\ strs[h] = OwnForm(pids[h])
            /\ strs[g] = strs[h] <=> pids[g] = pids[h]

\* C15: a binding just created needs a connection; once NoNeedConnect has
\* been called it does not, and no operation of the binding makes it need
\* one again.
C15_NeedConnect ==
    [][/\ (impl = NilImpl /\ impl' # NilImpl) => IsNeedConnect(impl')
       /\ (impl # NilImpl /\ call'.op = "NoNeedConnect") => ~IsNeedConnect(impl')
       /\ (impl # NilImpl /\ ~IsNeedConnect(impl)) => ~IsNeedConnect(impl')]_vars

\* C15 case: SetConn has been called on a binding after NoNeedConnect.
C15_Witness ==
    /\ impl # NilImpl
    /\ call.op = "SetConn"
    /\ ~IsNeedConnect(impl)

\* C16: a node registers the direct service before the WebRTC service, and
\* a bring-up tries the peer transport only after its direct attempt has
\* failed, never before a direct attempt.
C16_DirectFirst ==
    \A n \in Nodes :
        /\ node[n].services \in {<<>>, <<DirectService, WebRTCService>>}
        /\ \A i \in DOMAIN attempts[n] :
              attempts[n][i].svc = WebRTCService =>
                  /\ i > 1
                  /\ \A j \in 1..(i - 1) :
                        attempts[n][j] = [svc |-> DirectService, ok |-> FALSE]

\* C16 case: a bring-up has tried the peer transport after a failed direct
\* attempt.
C16_Witness ==
    \E n \in Nodes :
        attempts[n] = <<[svc |-> DirectService, ok |-> FALSE],
                        [svc |-> WebRTCService, ok |-> TRUE]>>

\* C17: the rendezvous server's process ends only through a configuration
\* bootstrap error: neither its start-up nor the handling of its requests
\* ends it.
C17_ExitOnlyConfiguration ==
    /\ fatal => halt = "configuration"
    /\ halt \in {"", "configuration"}

\* C18: when the payload of a service request envelope cannot be decoded,
\* the error is logged and no service binding is produced.
C18_UndecodableDropped ==
    (call.op = "GetImpl" /\ call.ret = "logrus.Error(err)") => impl = NilImpl

\* an envelope with this flag about session id is at position i of emitted
EmittedAt(i, flag, id) ==
    /\ i \in DOMAIN emitted
    /\ emitted[i].Flag = flag
    /\ emitted[i].Id.Value = id.Value
    /\ emitted[i].Id.ImplCode = id.ImplCode

\* C19: for every session whose handshake is Open, an offer with the
\* session's id was emitted, and an answer with that id was emitted after
\* the offer (both before the session opened).
C19_OfferAnswerOpen ==
    \A n \in Nodes : \A r \in pool[n] :
        r.st = "Open" =>
            \E i, j \in DOMAIN emitted :
                /\ i < j
                /\ EmittedAt(i, SIG_TYPE_OFFER, r.id)
                /\ EmittedAt(j, SIG_TYPE_ANSWER, r.id)

\* C19 case: the sessions of the dialer and of the responder are both Open
\* after one offer and one answer.
C19_Witness ==
    /\ \E r \in pool["n1"] : r.st = "Open" /\ r.dir = "outbound"
    /\ \E r \in pool["n2"] : r.st = "Open" /\ r.dir = "inbound"
    /\ Len(emitted) = 2

EnqueuedReturns(t) == th[t].pc = "s104" /\ th'[t].pc = "idle" /\ ~fatal'

\* call t of Set takes the default case of its select on a queue that is full
DroppedOnFull(t) ==
    /\ th[t].pc = "send" /\ th'[t].pc = "idle" /\ ~fatal'
    /\ th[t].ch # Nil
    /\ ~chans[th[t].ch].closed

\* C21: a Set that enqueues leaves the counter of its peer at
\* LIFE_TIME_IN_SECOND when it returns; a Set whose envelope is dropped on
\* a full queue leaves the counters and the queues of the mailboxes as they
\* were.
C21_ResetOnlyOnEnqueue ==
    [][\A t \in Pushers :
          /\ EnqueuedReturns(t) => MapGet(alive', th[t].id) = LIFE_TIME_IN_SECOND
          /\ DroppedOnFull(t) =>
                /\ alive' = alive
                /\ datas' = datas
                /\ \A p \in DOMAIN datas : chans'[datas[p]] = chans[datas[p]]]_vars

\* C21 case: an envelope was just dropped on the full queue of a mailbox
\* whose counter the watchdog has already decremented.
C21_Witness ==
    /\ droppedFull # {}
    /\ out.by \in Pushers /\ out.status = StatusOK
    /\ \E p \in DOMAIN datas :
          /\ Len(Queue(p)) = MAX_BUFFER_NUMBER
          /\ MapGet(alive, p) < LIFE_TIME_IN_SECOND

\* pull t returns
PullReturns(t) == th[t].pc = "recv" /\ th'[t].pc = "idle" /\ ~fatal'

\* C22: the counter of a peer that has one is LIFE_TIME_IN_SECOND when a
\* pull of that peer returns, and when a push to that peer returns after
\* its envelope was enqueued.
C22_ResetOnActivity ==
    [][\A t \in Handlers :
          /\ (PullReturns(t) /\ th[t].id \in DOMAIN alive') =>
                alive'[th[t].id] = LIFE_TIME_IN_SECOND
          /\ (EnqueuedReturns(t) /\ th[t].id \in DOMAIN alive') =>
                alive'[th[t].id] = LIFE_TIME_IN_SECOND]_vars

\* the envelope a response body carries
Carried(r) == GobDecode(r.body).info

\* C23: the envelope of every non-empty pull response is one that a push
\* enqueued: it is never the zero-valued envelope, also when the pull got
\* the queue from Get just before Clean closed it.
C23_NoFabricatedEnvelope ==
    [][\A t \in Handlers :
          (out'.by = t /\ out'.body # <<>>) =>
              /\ Carried(out') # ZeroInfo
              /\ Carried(out').SDP \in 1..nPush
              /\ Carried(out').SDP \notin droppedFull]_vars

\* how many times n occurs in the sequence s
Count(s, n) == Cardinality({i \in DOMAIN s : s[i] = n})

\* the numbers of the envelopes waiting in the mailbox of p
Waiting(p) ==
    IF MapGet(datas, p) = Nil THEN <<>>
    ELSE [i \in DOMAIN Queue(p) |-> Queue(p)[i].SDP]

\* C24: every envelope Set has enqueued for a peer since the last eviction
\* of its mailbox is either waiting in the mailbox or was returned by
\* exactly one pull, also when two calls of Set create the mailbox
\* concurrently (as long as the server runs).
C24_NoLoss ==
    \A p \in Peers : \A i \in DOMAIN accepted[p] :
        fatal \/ Count(returned[p], accepted[p][i]) + Count(Waiting(p), accepted[p][i]) = 1

\* call t of Set runs its select
SelectRuns(t) == th[t].pc = "send" /\ th'[t].pc # "send" /\ ~fatal'

\* C25: whenever a call of Set runs its select, the channel it sends on is
\* not closed, and the push handler does not panic.
C25_NoSendOnClosed ==
    [][\A t \in Handlers :
          SelectRuns(t) =>
              /\ th[t].ch # Nil => ~chans[th[t].ch].closed
              /\ ~out'.panic]_vars

\* no call of Set is running, and every watchdog is asleep between two
\* decrements (none is at its loop test or at its Clean)
Quiet ==
    /\ ~fatal
    /\ \A t \in Handlers : th[t].pc \in {"idle", "decode", "g38", "recv"}
    /\ \A p \in Peers : wd[p]["loop"] = 0 /\ wd[p]["clean"] = 0

\* C26: whenever no Set, Clean or watchdog step is in progress, the peers
\* that have a queue are the peers that have a counter.
C26_SameKeys == Quiet => DOMAIN datas = DOMAIN alive

\* C27: a mailbox is evicted only while its counter is 0 and after
\* LIFE_TIME_IN_SECOND ticks of the watchdog since the counter was last
\* reset.
C27_CleanOnlyAtZero ==
    [][\A p \in Peers :
          Evicts(p) =>
              /\ MapGet(alive, p) = 0
              /\ idle[p] >= LIFE_TIME_IN_SECOND]_vars

\* C28: every envelope returned by a pull for peer p names p in its Target
\* field.
C28_DeliveredToTarget ==
    [][\A t \in SeqHandlers :
          (out'.by = t /\ out'.body # <<>>) =>
              Carried(out').Target = th[t].id]_vars

\* C29: when Send returns an error after the connection to the daemon was
\* opened, the connection is no longer open.
C29_ClosedOnError ==
    (cl.pc = "done" /\ cl.ret.err /\ cl.failed # "dial") => cl.conn # "open"

\* C30: Conn, Reader, Writer and ReadWriteCloser never fail and return the
\* endpoint most recently passed to SetConn, also on a binding on which
\* SetConn has not been called.
C30_ConnSafe ==
    call.op \in {"Conn", "Reader", "Writer", "ReadWriteCloser"} =>
        /\ call.ret # "panic"
        /\ call.ret = impl.conn

====
